---- MODULE Spec2Model ----
(***************************************************************************)
(* Model of app.py: the compression loop of compress_image, the "Upload    *)
(* Photo" handler that calls it, and the passport-number swap transform.   *)
(*                                                                         *)
(* compress_image writes every encoding attempt to the fixed path          *)
(* "temp.jpg" and decides by os.path.getsize of that path; the handler     *)
(* re-reads the same path for its size check, the upload and the download. *)
(* The path is modelled by the variable file, shared by all requests.      *)
(* The JPEG encoder is a nondeterministic choice of the byte size of each  *)
(* saved file.  scale_factor (a product of 0.8s) is kept as the exact      *)
(* fraction scale_num / scale_den.                                         *)
(***************************************************************************)
EXTENDS Integers, Sequences, FiniteSets

\* ---------------------------------------------------------------- bounds
\* widths and heights of the uploaded image range over 1..MaxDim
MaxDim == 2
\* the transform is applied to strings of length 0..MaxLen
MaxLen == 5

\* ------------------------------------------------------ program constants
Ceiling == 50000
StartQuality == 85
QualityStep == 5
MinQuality == 10
ResetQuality == 30
\* scale_factor *= 0.8, as the fraction ShrinkNum / ShrinkDen
ShrinkNum == 4
ShrinkDen == 5

\* the two browser sessions that may press "Upload Photo"
Reqs == {1, 2}
\* byte sizes the encoder may produce: under, at and over the ceiling
Sizes == {Ceiling - 1, Ceiling, Ceiling + 1}
Dims == 1..MaxDim
Alphabet == {"a", "b", "c"}
Strings == UNION {[1..n -> Alphabet] : n \in 0..MaxLen}

\* temp.jpg before any save
NoFile == [owner |-> 0, line |-> 0, q |-> 0, w |-> 0, h |-> 0, size |-> 0]
\* what a reader of temp.jpg gets: the bytes (their number) and whose image they encode
Bytes(f) == [owner |-> f.owner, size |-> f.size]
NoBytes == Bytes(NoFile)

VARIABLES
  file,        \* contents of temp.jpg: whose image, which save wrote it, quality, raster, size
  pc,          \* per request: the place in the handler / compress_image
  width,       \* image.size of the request's input
  height,
  new_width,
  new_height,
  quality,
  scale_num,   \* scale_factor = scale_num / scale_den
  scale_den,
  attempts,    \* number of image.save calls made by the request
  first_size,  \* byte size produced by the save of line 120
  uploaded,    \* what upload_to_drive sent for the request
  offered,     \* the bytes given to st.download_button
  photos,      \* the <<width, height>> of the images the users have at hand
  pp_pc,       \* the transform harness: which function was applied last
  pp_in,
  pp_out

vars == <<file, pc, width, height, new_width, new_height, quality, scale_num,
          scale_den, attempts, first_size, uploaded, offered, photos, pp_pc, pp_in, pp_out>>

locals == <<width, height, new_width, new_height, quality, scale_num, scale_den,
            attempts, first_size>>
ppvars == <<pp_pc, pp_in, pp_out>>
outs == <<uploaded, offered, photos>>

\* ------------------------------------------------------- pure functions

\* original_pp[:2], original_pp[-2:], original_pp[2:-2] for len >= 4
FirstTwo(s) == SubSeq(s, 1, 2)
LastTwo(s) == SubSeq(s, Len(s) - 1, Len(s))
Middle(s) == SubSeq(s, 3, Len(s) - 2)

\* slip: the middle slice written [2:-1]
encrypt_pp_number_slice(s) ==
  IF Len(s) < 4 THEN s ELSE LastTwo(s) \o SubSeq(s, 3, Len(s) - 1) \o FirstTwo(s)

encrypt_pp_number(s) ==
  IF Len(s) < 4 THEN s ELSE LastTwo(s) \o Middle(s) \o FirstTwo(s)

decrypt_pp_number(s) ==
  IF Len(s) < 4
    THEN s
    ELSE LET last_two == FirstTwo(s)
             first_two == LastTwo(s)
             middle == Middle(s)
         IN first_two \o middle \o last_two

\* slip: the size test left out of the loop guard
LoopCondIgnoreSize(size, q) == q >= MinQuality

\* while os.path.getsize(temp_path) >= 50_000 and quality >= 10
LoopCond(size, q) == size >= Ceiling /\ q >= MinQuality

\* slip: no downscale branch, quality is only ever lowered
ShrinkCondNever(size, q) == FALSE

\* slip: quality < 10 where the code has quality <= 10
ShrinkCondStrict(size, q) == size >= Ceiling /\ q < MinQuality

\* if os.path.getsize(temp_path) >= 50_000 and quality <= 10
ShrinkCond(size, q) == size >= Ceiling /\ q <= MinQuality

\* slip: quality += 5
DecQualityUp(q) == q + QualityStep

\* quality -= 5
DecQuality(q) == q - QualityStep

\* int(width * scale_factor); the float product of 0.8s truncates to this
\* floor of the exact fraction for every size and round count reached here
Scaled(d, num, den) == (d * num) \div den

\* if os.path.getsize(compressed) <= 50_000
SizeOk(size) == size <= Ceiling

\* Image.resize raises ValueError for a target of width or height < 1
ResizeFails(w, h) == w < 1 \/ h < 1

\* ---------------------------------------------------------------- states

InitLocals ==
  /\ width = [r \in Reqs |-> 0]
  /\ height = [r \in Reqs |-> 0]
  /\ new_width = [r \in Reqs |-> 0]
  /\ new_height = [r \in Reqs |-> 0]
  /\ quality = [r \in Reqs |-> 0]
  /\ scale_num = [r \in Reqs |-> 1]
  /\ scale_den = [r \in Reqs |-> 1]
  /\ attempts = [r \in Reqs |-> 0]
  /\ first_size = [r \in Reqs |-> 0]
  /\ uploaded = [r \in Reqs |-> NoBytes]
  /\ offered = [r \in Reqs |-> NoBytes]
  /\ file = NoFile

\* one session uses the app, with an image of any size within the bound
Init ==
  /\ InitLocals
  /\ photos = Dims \X Dims
  /\ pc = [r \in Reqs |-> IF r = 1 THEN "idle" ELSE "absent"]
  /\ pp_pc = "off" /\ pp_in = <<>> /\ pp_out = <<>>

\* two sessions use the app at the same time, each with its own image
InitConc ==
  /\ InitLocals
  /\ photos = {<<1, 1>>}
  /\ pc = [r \in Reqs |-> "idle"]
  /\ pp_pc = "off" /\ pp_in = <<>> /\ pp_out = <<>>

\* the transform alone, on any string within the bound
InitPP ==
  /\ InitLocals
  /\ photos = {}
  /\ pc = [r \in Reqs |-> "absent"]
  /\ pp_pc = "input" /\ pp_in \in Strings /\ pp_out = <<>>

\* --------------------------------------------------------------- actions

\* image.save(temp_path, "JPEG", optimize=True, quality=q) of a w x h raster
Saved(r, ln, q, w, h, size) ==
  [owner |-> r, line |-> ln, q |-> q, w |-> w, h |-> h, size |-> size]

\* lines 357-359 and 108-120: the button is pressed, the image is opened,
\* the locals are set and the first encoding is written
Begin(r) ==
  /\ pc[r] = "idle"
  /\ \E wh \in photos, size \in Sizes :
     LET w == wh[1]
         h == wh[2]
     IN
       /\ width' = [width EXCEPT ![r] = w]
       /\ height' = [height EXCEPT ![r] = h]
       /\ new_width' = [new_width EXCEPT ![r] = w]
       /\ new_height' = [new_height EXCEPT ![r] = h]
       /\ quality' = [quality EXCEPT ![r] = StartQuality]
       /\ scale_num' = [scale_num EXCEPT ![r] = 1]
       /\ scale_den' = [scale_den EXCEPT ![r] = 1]
       /\ file' = Saved(r, 120, StartQuality, w, h, size)
       /\ first_size' = [first_size EXCEPT ![r] = size]
  /\ attempts' = [attempts EXCEPT ![r] = 1]
  /\ pc' = [pc EXCEPT ![r] = "while"]
  /\ UNCHANGED <<outs, ppvars>>

\* line 123: the loop guard reads the size of temp.jpg; line 139 when it fails
WhileTest(r) ==
  /\ pc[r] = "while"
  /\ pc' = [pc EXCEPT ![r] = IF LoopCond(file.size, quality[r]) THEN "dec" ELSE "returned"]
  /\ UNCHANGED <<file, locals, outs, ppvars>>

\* lines 125-126: quality -= 5; image.save(...) of the ORIGINAL image
DecSave(r) ==
  /\ pc[r] = "dec"
  /\ \E size \in Sizes :
       file' = Saved(r, 126, DecQuality(quality[r]), width[r], height[r], size)
  /\ quality' = [quality EXCEPT ![r] = DecQuality(quality[r])]
  /\ attempts' = [attempts EXCEPT ![r] = @ + 1]
  /\ pc' = [pc EXCEPT ![r] = "if"]
  /\ UNCHANGED <<width, height, new_width, new_height, scale_num, scale_den,
                 first_size, outs, ppvars>>

\* line 129
IfTest(r) ==
  /\ pc[r] = "if"
  /\ pc' = [pc EXCEPT ![r] = IF ShrinkCond(file.size, quality[r]) THEN "shrink" ELSE "while"]
  /\ UNCHANGED <<file, locals, outs, ppvars>>

\* lines 130-137: scale_factor *= 0.8, the target size, the resize (which
\* raises on an empty target and ends the call), the save of the resized
\* raster at the current quality, then quality = 30
Downscale(r) ==
  /\ pc[r] = "shrink"
  /\ LET num == scale_num[r] * ShrinkNum
         den == scale_den[r] * ShrinkDen
         nw == Scaled(width[r], num, den)
         nh == Scaled(height[r], num, den)
     IN /\ scale_num' = [scale_num EXCEPT ![r] = num]
        /\ scale_den' = [scale_den EXCEPT ![r] = den]
        /\ new_width' = [new_width EXCEPT ![r] = nw]
        /\ new_height' = [new_height EXCEPT ![r] = nh]
        /\ IF ResizeFails(nw, nh)
             THEN /\ pc' = [pc EXCEPT ![r] = "crashed"]
                  /\ UNCHANGED <<file, quality, attempts>>
             ELSE /\ \E size \in Sizes :
                       file' = Saved(r, 134, quality[r], nw, nh, size)
                  /\ quality' = [quality EXCEPT ![r] = ResetQuality]
                  /\ attempts' = [attempts EXCEPT ![r] = @ + 1]
                  /\ pc' = [pc EXCEPT ![r] = "while"]
  /\ UNCHANGED <<width, height, first_size, outs, ppvars>>

\* line 362: the handler's own size check of the returned path
HandlerCheck(r) ==
  /\ pc[r] = "returned"
  /\ pc' = [pc EXCEPT ![r] = IF SizeOk(file.size) THEN "upload" ELSE "rejected"]
  /\ UNCHANGED <<file, locals, outs, ppvars>>

\* line 363 and 141-150: MediaFileUpload reads temp.jpg
Upload(r) ==
  /\ pc[r] = "upload"
  /\ uploaded' = [uploaded EXCEPT ![r] = Bytes(file)]
  /\ pc' = [pc EXCEPT ![r] = "download"]
  /\ UNCHANGED <<file, locals, offered, photos, ppvars>>

\* lines 368-374: temp.jpg is read again for the download button
Download(r) ==
  /\ pc[r] = "download"
  /\ offered' = [offered EXCEPT ![r] = Bytes(file)]
  /\ pc' = [pc EXCEPT ![r] = "done"]
  /\ UNCHANGED <<file, locals, uploaded, photos, ppvars>>

\* line 264: the search term is transformed
Encrypt ==
  /\ pp_pc = "input"
  /\ pp_out' = encrypt_pp_number(pp_in)
  /\ pp_pc' = "encrypted"
  /\ UNCHANGED <<file, pc, locals, outs, pp_in>>

\* line 327 on a value stored transformed
Decrypt ==
  /\ pp_pc = "encrypted"
  /\ pp_out' = decrypt_pp_number(pp_out)
  /\ pp_pc' = "decrypted"
  /\ UNCHANGED <<file, pc, locals, outs, pp_in>>

\* line 327 on a value as it is
DecryptPlain ==
  /\ pp_pc = "input"
  /\ pp_out' = decrypt_pp_number(pp_in)
  /\ pp_pc' = "decrypted_plain"
  /\ UNCHANGED <<file, pc, locals, outs, pp_in>>

Next ==
  \E r \in Reqs :
    \/ Begin(r)
    \/ WhileTest(r)
    \/ DecSave(r)
    \/ IfTest(r)
    \/ Downscale(r)
    \/ HandlerCheck(r)
    \/ Upload(r)
    \/ Download(r)

NextPP == Encrypt \/ Decrypt \/ DecryptPlain

Spec == Init /\ [][Next]_vars
SpecConc == InitConc /\ [][Next]_vars
SpecPP == InitPP /\ [][NextPP]_vars

\* ---------------------------------------------------------------- claims

Qualities == {q \in MinQuality..StartQuality : q % QualityStep = 0}

\* C1: when compress_image has returned, temp.jpg holds at most 50,000 bytes,
\* and what upload_to_drive sends has at most 50,000 bytes.
C1_ReturnedUnderCeiling ==
  \A r \in Reqs :
    /\ pc[r] = "returned" => file.owner = r /\ file.size <= Ceiling
    /\ uploaded[r] # NoBytes => uploaded[r].size <= Ceiling

\* C1 witness: an upload made after the loop ran and downscaled.
C1_Witness ==
  \E r \in Reqs : uploaded[r] # NoBytes /\ scale_den[r] > 1 /\ attempts[r] > 1

\* C2: the call never crashes: it ends by returning (an artifact under the
\* ceiling, or its smallest attempt with the ceiling not met).
C2_NeverCrashes ==
  \A r \in Reqs : pc[r] # "crashed"

\* C3: with two requests interleaved, the bytes a request uploads and the
\* bytes it offers for download are an encoding of that request's own image.
C3_OwnImageOnly ==
  \A r \in Reqs :
    /\ uploaded[r] # NoBytes => uploaded[r].owner = r
    /\ offered[r] # NoBytes => offered[r].owner = r

\* C4: after any downscale round the target dimensions handed to resize are
\* both at least 1.
C4_TargetAtLeastOne ==
  \A r \in Reqs : scale_den[r] > 1 => new_width[r] >= 1 /\ new_height[r] >= 1

\* C5 as stated: a first encoding of at most 50,000 bytes (50,000 included)
\* is the only attempt; quality stays 85 and nothing is downscaled.
C5_FirstFitsInclusive ==
  \A r \in Reqs :
    attempts[r] >= 1 /\ first_size[r] <= Ceiling
      => attempts[r] = 1 /\ quality[r] = StartQuality /\ scale_den[r] = 1

\* C5 amended: a first encoding strictly under 50,000 bytes is the only
\* attempt (quality 85, no downscale), and the call returns.
C5_FirstFitsStrict ==
  \A r \in Reqs :
    attempts[r] >= 1 /\ first_size[r] < Ceiling
      => /\ attempts[r] = 1 /\ quality[r] = StartQuality /\ scale_den[r] = 1
         /\ new_width[r] = width[r] /\ new_height[r] = height[r]
         /\ pc[r] \in {"while", "returned", "upload", "download", "done"}

\* C5 witness: the call has returned after a first encoding under the ceiling.
C5_Witness ==
  \E r \in Reqs : pc[r] = "done" /\ first_size[r] = Ceiling - 1 /\ attempts[r] = 1

\* one more image.save has been made by request r
NewAttempt(r) == attempts[r] >= 1 /\ attempts'[r] = attempts[r] + 1

C7_RoundTrip ==
  /\ pp_pc = "decrypted" /\ Len(pp_in) >= 4 => pp_out = pp_in
  /\ pp_pc \in {"encrypted", "decrypted_plain"} /\ Len(pp_in) < 4 => pp_out = pp_in

\* C7 witness: a round trip of a string of length >= 4 that the swap changes.
C7_Witness ==
  /\ pp_pc = "decrypted" /\ Len(pp_in) >= 4 /\ pp_out = pp_in
  /\ encrypt_pp_number(pp_in) # pp_in

\* C8: after a downscale round, a quality-decrease attempt (line 126)
\* encodes the raster at the current working dimensions.
C8_DecreaseUsesWorkingDims ==
  \A r \in Reqs :
    file.owner = r /\ file.line = 126 /\ scale_den[r] > 1
      => file.w = new_width[r] /\ file.h = new_height[r]

\* C9: the downscaled raster is encoded at the reset quality 30.
C9_DownscaledAtResetQuality ==
  file.line = 134 => file.q = ResetQuality

\* C10: every attempt is encoded at a quality in {10, 15, ..., 85}, the
\* quality variable is never under 10, and 0 < scale_factor <= 1.
C10_QualityAndScaleInRange ==
  /\ file # NoFile => file.q \in Qualities
  /\ \A r \in Reqs :
       /\ attempts[r] >= 1 => quality[r] \in Qualities
       /\ 0 < scale_num[r] * scale_den[r] /\ scale_num[r] <= scale_den[r]

\* C10 witness: an attempt at the floor quality 10 after a downscale round.
C10_Witness ==
  \E r \in Reqs : file.owner = r /\ file.q = MinQuality /\ scale_den[r] > 1
====
